---- MODULE Spec2Model ----
(***************************************************************************)
(* pytui: a component tree with focus-chain traversal (Component), the     *)
(* dispatch loop of FrameWindow.process and the widgets Button, Checkbox,  *)
(* Text and Input.  Indices into `children` are 0-based as in the Python;  *)
(* the child at Python index i is children[i + 1].                         *)
(***************************************************************************)
EXTENDS Integers, Sequences, FiniteSets, TLC

\* ---- bounds of the model ------------------------------------------------
MaxChildren == 5        \* longest child list the traversal calls are made on
MaxWindow   == 2        \* most widgets added to the window process() runs on
MaxWidthArg == 3        \* largest max_width handed to Input(...)
MaxOver     == 1        \* printable keys stop once value is this much over max_width
MaxCalls    == 2        \* a callback is not invoked more often than this

\* ---- Python values ------------------------------------------------------
\* None, for focused_child and for a returned child
None == -1

\* None, for the local `key` of process(): no key was read
NoKey == "None"

KEY_TAB  == "\t"        \* chr(9)
KEY_ESC  == "ESC"       \* chr(27)
KEY_BTAB == "KEY_BTAB"
linesep  == "\n"        \* os.linesep

\* the printable characters typed in the model
Chars == {"a", " "}

\* every value the key source can deliver (getkey), None when it raises
Keys == {KEY_TAB, KEY_BTAB, KEY_ESC, linesep, "KEY_LEFT", "KEY_RIGHT",
         "KEY_HOME", "KEY_END", "KEY_IC", "KEY_DC", "KEY_BACKSPACE",
         "KEY_F1"} \cup Chars

\* len(key) of a key string
KeyLen(key) == IF key \in {KEY_TAB, KEY_ESC, linesep} \cup Chars THEN 1 ELSE Len(key)

\* ord(key) of a one-character key
Ord(key) == CASE key = KEY_TAB -> 9
              [] key = linesep -> 10
              [] key = KEY_ESC -> 27
              [] key = " "     -> 32
              [] key = "a"     -> 97
              [] OTHER         -> 0

Kinds == {"Button", "Checkbox", "Text", "Input"}

\* the validators handed to Input(validate_fn=...): none, one that accepts
\* everything, one that rejects everything, one that accepts a value that
\* is not yet full
Validators == {"None", "accept", "reject", "notfull"}

VARIABLES
    children,       \* Component.children: the child widgets, in order
    focused_child,  \* Component.focused_child: None or a 0-based index
    focusable_count,\* Component.focusable_count
    pc,             \* where the caller is: "Idle", "Running", "Terminated", "Error"
    key,            \* the local `key` of FrameWindow.process; the key handed to key_pressed
    op,             \* the operation the last step performed
    ret,            \* the child (its index) the last traversal call returned, or None
    err,            \* the exception the last operation raised, "none" if it returned
    forwarded       \* index of the child whose key_pressed the last step called, or None

vars == <<children, focused_child, focusable_count, pc, key, op, ret, err, forwarded>>

\* ---- constructors -------------------------------------------------------
ButtonWidth == 20

\* Component.__init__ / VisualComponent.__init__ and the widget constructors:
\* the fields of a freshly built widget of the given kind
NewWidget(kind, value, max_width, validate_fn, state) ==
    [ kind        |-> kind,
      can_focus   |-> (kind # "Text"),
      has_focus   |-> FALSE,
      cursor_offset |-> CASE kind = "Button"   -> ButtonWidth \div 2
                          [] kind = "Checkbox" -> 1
                          [] kind = "Input"    -> Len(value)
                          [] OTHER             -> 0,
      state       |-> IF kind = "Checkbox" THEN state ELSE FALSE,
      calls       |-> 0,
      value       |-> IF kind = "Input" THEN value ELSE << >>,
      max_width   |-> IF kind = "Input" THEN max_width ELSE 0,
      validate_fn |-> IF kind = "Input" THEN validate_fn ELSE "None",
      insert_mode |-> TRUE,
      painted     |-> "unpainted",
      seen        |-> << >> ]

\* the child at Python index i
Child(ch, i) == ch[i + 1]

\* ---- Component: focus-chain traversal -------------------------------------
\* A call's outcome: the new focused_child, the returned child's index (or
\* None) and the exception raised ("none" when the call returned).
Outcome(fc, r, e) == [fc |-> fc, ret |-> r, err |-> e]

\* Component.current_child
current_child(ch, fc) ==
    IF Len(ch) > 0
    THEN IF fc = None THEN Outcome(fc, None, "TypeError")
         ELSE IF fc >= Len(ch) THEN Outcome(fc, None, "IndexError")
         ELSE Outcome(fc, fc, "none")
    ELSE Outcome(fc, None, "none")

\* the while loop of first_child, cursor at i
RECURSIVE FirstScan(_, _)
FirstScan(ch, i) ==
    IF i < Len(ch)
    THEN IF Child(ch, i).can_focus THEN Outcome(i, i, "none")
         ELSE FirstScan(ch, i + 1)
    ELSE Outcome(i, None, "none")

\* Component.first_child
first_child(ch, fc) ==
    IF Len(ch) > 0 THEN FirstScan(ch, 0) ELSE Outcome(fc, None, "none")

\* the while loop of last_child, cursor at i
RECURSIVE LastScan(_, _)
LastScan(ch, i) ==
    IF i > 0
    THEN IF Child(ch, i).can_focus THEN Outcome(i, i, "none")
         ELSE LastScan(ch, i - 1)
    ELSE Outcome(i, None, "none")

\* Component.last_child
last_child(ch, fc) ==
    IF Len(ch) > 0 THEN LastScan(ch, Len(ch) - 1) ELSE Outcome(fc, None, "none")

\* the while loop of next_child, cursor at i: the index is advanced before
\* the child is read, so reading past the end raises IndexError
RECURSIVE NextScan(_, _)
NextScan(ch, i) ==
    IF i < Len(ch)
    THEN IF i + 1 >= Len(ch) THEN Outcome(i + 1, None, "IndexError")
         ELSE IF Child(ch, i + 1).can_focus THEN Outcome(i + 1, i + 1, "none")
         ELSE NextScan(ch, i + 1)
    ELSE Outcome(i, None, "none")

\* Component.next_child; `None < len(...)` raises TypeError
next_child(ch, fc) ==
    IF Len(ch) > 0
    THEN IF fc # None /\ fc = Len(ch) - 1 THEN first_child(ch, 0)
         ELSE IF fc = None THEN Outcome(fc, None, "TypeError")
         ELSE NextScan(ch, fc)
    ELSE Outcome(fc, None, "none")

\* the while loop of previous_child, cursor at i
RECURSIVE PrevScan(_, _)
PrevScan(ch, i) ==
    IF i > 0
    THEN IF Child(ch, i - 1).can_focus THEN Outcome(i - 1, i - 1, "none")
         ELSE PrevScan(ch, i - 1)
    ELSE Outcome(i, None, "none")

\* Component.previous_child; `None > 0` raises TypeError
previous_child(ch, fc) ==
    IF Len(ch) > 0
    THEN IF fc = 0 THEN last_child(ch, Len(ch) - 1)
         ELSE IF fc = None THEN Outcome(fc, None, "TypeError")
         ELSE PrevScan(ch, fc)
    ELSE Outcome(fc, None, "none")

\* ---- focus ------------------------------------------------------------------
\* Component.get_focus (VisualComponent, Checkbox and Input add painting only)
get_focus(c) == IF c.can_focus THEN [c EXCEPT !.has_focus = TRUE] ELSE c

\* lose_focus that leaves has_focus as it is
lose_focus_Keeps(c) == c

\* Component.lose_focus
lose_focus(c) == IF c.can_focus THEN [c EXCEPT !.has_focus = FALSE] ELSE c

\* ---- painting and callbacks ---------------------------------------------------
\* the check mark Checkbox.repaint draws for a state
Mark(state) == IF state THEN "checked" ELSE "unchecked"

\* repaint of a widget: painted is the check mark a Checkbox has on the
\* surface; the text the other widgets draw is not kept
repaint(c) == IF c.kind = "Checkbox" THEN [c EXCEPT !.painted = Mark(c.state)] ELSE c

\* the loop of FrameWindow.repaint over the children
RepaintAll(ch) == [i \in 1 .. Len(ch) |-> repaint(ch[i])]

\* VisualComponent.get_focus / lose_focus: Component's, then repaint
visual_get_focus(c) == repaint(get_focus(c))
visual_lose_focus(c) == repaint(lose_focus(c))

\* call_fn(self): the invocation is counted in calls, and seen keeps what
\* the callback finds in the widget, its state and the mark on the surface
call_fn(c) == [c EXCEPT !.calls = c.calls + 1, !.seen = <<c.state, c.painted>>]

\* ---- widgets: key_pressed ---------------------------------------------------
\* Python slices of a string held as a sequence: s[:n] and s[n:]
Take(s, n) == SubSeq(s, 1, IF n > Len(s) THEN Len(s) ELSE n)
Drop(s, n) == SubSeq(s, n + 1, Len(s))

\* validate_fn(self.value) of Input.key_pressed
Validx(c) == CASE c.validate_fn = "None"    -> TRUE
               [] c.validate_fn = "accept"  -> TRUE
               [] c.validate_fn = "reject"  -> FALSE
               [] c.validate_fn = "notfull" -> Len(c.value) < c.max_width

\* InputPrintable with the insert branch forgetting to advance the cursor
InputPrintable_NoAdvance(c, k) ==
    IF c.insert_mode /\ Len(c.value) < c.max_width
    THEN [c EXCEPT !.value = Take(c.value, c.cursor_offset) \o <<k>> \o Drop(c.value, c.cursor_offset)]
    ELSE [c EXCEPT !.value = Take(c.value, c.cursor_offset) \o <<k>> \o Drop(c.value, c.cursor_offset + 1),
                   !.cursor_offset = IF c.cursor_offset = Len(c.value) /\ c.cursor_offset < c.max_width
                                     THEN c.cursor_offset + 1 ELSE c.cursor_offset]

\* InputPrintable with the overwrite branch advancing the cursor after every
\* character, also when it replaces one inside the value
InputPrintable_OverwriteAdvances(c, k) ==
    IF c.insert_mode /\ Len(c.value) < c.max_width
    THEN [c EXCEPT !.value = Take(c.value, c.cursor_offset) \o <<k>> \o Drop(c.value, c.cursor_offset),
                   !.cursor_offset = c.cursor_offset + 1]
    ELSE [c EXCEPT !.value = Take(c.value, c.cursor_offset) \o <<k>> \o Drop(c.value, c.cursor_offset + 1),
                   !.cursor_offset = c.cursor_offset + 1]

\* the printable-key branch of Input.key_pressed
InputPrintable(c, k) ==
    IF c.insert_mode /\ Len(c.value) < c.max_width
    THEN [c EXCEPT !.value = Take(c.value, c.cursor_offset) \o <<k>> \o Drop(c.value, c.cursor_offset),
                   !.cursor_offset = c.cursor_offset + 1]
    ELSE [c EXCEPT !.value = Take(c.value, c.cursor_offset) \o <<k>> \o Drop(c.value, c.cursor_offset + 1),
                   !.cursor_offset = IF c.cursor_offset = Len(c.value) /\ c.cursor_offset < c.max_width
                                     THEN c.cursor_offset + 1 ELSE c.cursor_offset]

\* InputDispatch with Backspace deleting the character but leaving the
\* cursor where it was
InputDispatch_BackspaceKeepsCursor(c, k) ==
    IF k = "KEY_LEFT" /\ c.cursor_offset > 0
         THEN [c EXCEPT !.cursor_offset = c.cursor_offset - 1]
    ELSE IF k = "KEY_RIGHT" /\ c.cursor_offset < Len(c.value)
         THEN [c EXCEPT !.cursor_offset = c.cursor_offset + 1]
    ELSE IF k = "KEY_HOME" THEN [c EXCEPT !.cursor_offset = 0]
    ELSE IF k = "KEY_END" THEN [c EXCEPT !.cursor_offset = Len(c.value)]
    ELSE IF k = "KEY_IC" THEN [c EXCEPT !.insert_mode = ~c.insert_mode]
    ELSE IF k = "KEY_DC" /\ Len(c.value) > 0
         THEN [c EXCEPT !.value = Take(c.value, c.cursor_offset) \o Drop(c.value, c.cursor_offset + 1)]
    ELSE IF k = "KEY_BACKSPACE" /\ c.cursor_offset > 0
         THEN [c EXCEPT !.value = Take(c.value, c.cursor_offset - 1) \o Drop(c.value, c.cursor_offset)]
    ELSE IF KeyLen(k) = 1 /\ Ord(k) >= 32 THEN InputPrintable(c, k)
    ELSE c

\* the `if validx:` body of Input.key_pressed
InputDispatch(c, k) ==
    IF k = "KEY_LEFT" /\ c.cursor_offset > 0
         THEN [c EXCEPT !.cursor_offset = c.cursor_offset - 1]
    ELSE IF k = "KEY_RIGHT" /\ c.cursor_offset < Len(c.value)
         THEN [c EXCEPT !.cursor_offset = c.cursor_offset + 1]
    ELSE IF k = "KEY_HOME" THEN [c EXCEPT !.cursor_offset = 0]
    ELSE IF k = "KEY_END" THEN [c EXCEPT !.cursor_offset = Len(c.value)]
    ELSE IF k = "KEY_IC" THEN [c EXCEPT !.insert_mode = ~c.insert_mode]
    ELSE IF k = "KEY_DC" /\ Len(c.value) > 0
         THEN [c EXCEPT !.value = Take(c.value, c.cursor_offset) \o Drop(c.value, c.cursor_offset + 1)]
    ELSE IF k = "KEY_BACKSPACE" /\ c.cursor_offset > 0
         THEN [c EXCEPT !.value = Take(c.value, c.cursor_offset - 1) \o Drop(c.value, c.cursor_offset),
                        !.cursor_offset = c.cursor_offset - 1]
    ELSE IF KeyLen(k) = 1 /\ Ord(k) >= 32 THEN InputPrintable(c, k)
    ELSE c

\* InputKeyPressed with the validator gating only the keys that edit the
\* value: navigation and mode keys pass
InputKeyPressed_GateEditsOnly(c, k) ==
    IF ~Validx(c) /\ k \in Chars \cup {"KEY_DC", "KEY_BACKSPACE"} THEN c ELSE InputDispatch(c, k)

\* Input.key_pressed: nothing is done unless validate_fn accepts the value
InputKeyPressed(c, k) ==
    IF ~Validx(c) THEN c ELSE InputDispatch(c, k)

\* Button.key_pressed, with a call_fn configured: the callback is counted
\* in calls
ButtonKeyPressed(c, k) ==
    IF k = linesep \/ k = " " THEN call_fn(c) ELSE c

\* CheckboxKeyPressed that checks the box instead of toggling it
CheckboxKeyPressed_SetsChecked(c, k) ==
    IF k = linesep \/ k = " "
    THEN call_fn(repaint([c EXCEPT !.state = TRUE]))
    ELSE c

\* CheckboxKeyPressed that invokes the callback before it flips state and
\* repaints
CheckboxKeyPressed_CallbackFirst(c, k) ==
    IF k = linesep \/ k = " "
    THEN repaint([call_fn(c) EXCEPT !.state = ~c.state])
    ELSE c

\* Checkbox.key_pressed, with a call_fn configured: flip state, repaint,
\* callback (counted in calls)
CheckboxKeyPressed(c, k) ==
    IF k = linesep \/ k = " "
    THEN call_fn(repaint([c EXCEPT !.state = ~c.state]))
    ELSE c

\* key_pressed of a widget, by its class; Text inherits Component.key_pressed
key_pressed(c, k) ==
    CASE c.kind = "Input"    -> InputKeyPressed(c, k)
      [] c.kind = "Button"   -> ButtonKeyPressed(c, k)
      [] c.kind = "Checkbox" -> CheckboxKeyPressed(c, k)
      [] OTHER               -> c

\* the bounds on a key press: no callback beyond MaxCalls, no printable key
\* on a value that is MaxOver characters over max_width
WithinBounds(c, k) ==
    /\ key_pressed(c, k).calls <= MaxCalls
    /\ (c.kind = "Input" /\ k \in Chars) => Len(c.value) < c.max_width + MaxOver

\* ---- state after construction ------------------------------------------------
\* Component.__init__ of the FrameWindow: no children, no cursor
Init ==
    /\ children = << >>
    /\ focused_child = None
    /\ focusable_count = 0
    /\ pc = "Idle"
    /\ key = NoKey
    /\ op = "init"
    /\ ret = None
    /\ err = "none"
    /\ forwarded = None

\* the caller can act: not inside process() and no exception has escaped
Callable == pc = "Idle" /\ err = "none"

\* Component.add_child, with the widget built by its constructor; at most
\* `limit` children are added, all of them before the first other call
AddChild(limit, kind, value, max_width, validate_fn, state) ==
    /\ Callable
    /\ op \in {"init", "add_child"}
    /\ Len(children) < limit
    /\ LET child == NewWidget(kind, value, max_width, validate_fn, state) IN
         /\ children' = Append(children, child)
         /\ focusable_count' = IF child.can_focus THEN focusable_count + 1
                               ELSE focusable_count
    /\ op' = "add_child"
    /\ ret' = None
    /\ forwarded' = None
    /\ UNCHANGED <<focused_child, pc, key, err>>

\* a traversal call made by the caller, with the outcome r
Traverse(name, r) ==
    /\ Callable
    /\ focused_child' = r.fc
    /\ ret' = r.ret
    /\ err' = r.err
    /\ op' = name
    /\ forwarded' = None
    /\ UNCHANGED <<children, focusable_count, pc, key>>

CurrentChild  == Traverse("current_child", current_child(children, focused_child))
FirstChild    == Traverse("first_child", first_child(children, focused_child))
LastChild     == Traverse("last_child", last_child(children, focused_child))
NextChild     == Traverse("next_child", next_child(children, focused_child))
PreviousChild == Traverse("previous_child", previous_child(children, focused_child))

\* key_pressed(k) called on the child at index i
KeyPressed(i, k) ==
    /\ Callable
    /\ i < Len(children)
    /\ WithinBounds(Child(children, i), k)
    /\ children' = [children EXCEPT ![i + 1] = key_pressed(@, k)]
    /\ op' = "key_pressed"
    /\ key' = k
    /\ ret' = None
    /\ forwarded' = i
    /\ UNCHANGED <<focused_child, focusable_count, pc, err>>

\* ---- FrameWindow.process -------------------------------------------------------
\* the children after current_child().get_focus() / .lose_focus(), the
\* current child being the one at index i
GetFocusAt(ch, i) == [ch EXCEPT ![i + 1] = visual_get_focus(@)]
LoseFocusAt(ch, i) == [ch EXCEPT ![i + 1] = visual_lose_focus(@)]

\* process() up to the loop: repaint, first_child, and focus for the child it
\* returns
ProcessStart ==
    /\ Callable
    /\ LET r == first_child(children, focused_child) IN
         /\ focused_child' = r.fc
         /\ ret' = r.ret
         /\ IF r.ret # None
            THEN /\ children' = GetFocusAt(RepaintAll(children), r.fc)
                 /\ pc' = "Running"
            ELSE /\ children' = RepaintAll(children)
                 /\ pc' = "Terminated"
    /\ key' = NoKey
    /\ op' = "process"
    /\ forwarded' = None
    /\ UNCHANGED <<focusable_count, err>>

\* the Tab / Back-Tab branch for the key k: lose_focus on the current child,
\* move the cursor with next_child (Tab) or previous_child (Back-Tab), and
\* get_focus on the current child when a child was returned
MoveFocus(ch, fc, k) ==
    LET cur == current_child(ch, fc) IN
    IF cur.err # "none" THEN [children |-> ch, fc |-> fc, ret |-> None, err |-> cur.err]
    ELSE LET lost == LoseFocusAt(ch, fc)
             r    == IF k = KEY_TAB THEN next_child(lost, fc) ELSE previous_child(lost, fc)
         IN IF r.err # "none" THEN [children |-> lost, fc |-> r.fc, ret |-> None, err |-> r.err]
            ELSE IF r.ret # None
                 THEN [children |-> GetFocusAt(lost, r.fc), fc |-> r.fc, ret |-> r.ret, err |-> "none"]
                 ELSE [children |-> lost, fc |-> r.fc, ret |-> None, err |-> "none"]

\* the key read at the end of an iteration: k from the key source, None when
\* current_child().getyx() or getkey raises inside the try block
ReadKey(ch, fc, k) ==
    LET cur == current_child(ch, fc) IN
    IF cur.err = "none" /\ cur.ret # None THEN k ELSE NoKey

\* one iteration of the while loop whose key is Tab or Back-Tab
LoopMove(k) ==
    /\ pc = "Running"
    /\ key \in {KEY_TAB, KEY_BTAB}
    /\ LET m == MoveFocus(children, focused_child, key)
       IN /\ children' = m.children
          /\ focused_child' = m.fc
          /\ ret' = m.ret
          /\ err' = m.err
          /\ pc' = IF m.err = "none" THEN "Running" ELSE "Error"
          /\ key' = IF m.err = "none" THEN ReadKey(m.children, m.fc, k) ELSE key
    /\ op' = "process"
    /\ forwarded' = None
    /\ UNCHANGED focusable_count

\* LoopForward with the loop condition tested after the body: Escape is
\* forwarded like any other key
LoopForward_ForwardsEscape(k) ==
    /\ pc = "Running"
    /\ key \notin {KEY_TAB, KEY_BTAB, NoKey}
    /\ LET cur == current_child(children, focused_child) IN
         IF cur.err # "none"
         THEN /\ err' = cur.err
              /\ pc' = "Error"
              /\ UNCHANGED <<children, key>>
              /\ forwarded' = None
         ELSE /\ WithinBounds(Child(children, cur.ret), key)
              /\ children' = [children EXCEPT ![cur.ret + 1] = key_pressed(@, key)]
              /\ forwarded' = cur.ret
              /\ key' = ReadKey(children', focused_child, k)
              /\ UNCHANGED <<err, pc>>
    /\ op' = "process"
    /\ ret' = None
    /\ UNCHANGED <<focused_child, focusable_count>>

\* one iteration whose key is any other key: key_pressed of the current child
LoopForward(k) ==
    /\ pc = "Running"
    /\ key \notin {KEY_TAB, KEY_BTAB, KEY_ESC, NoKey}
    /\ LET cur == current_child(children, focused_child) IN
         IF cur.err # "none"
         THEN /\ err' = cur.err
              /\ pc' = "Error"
              /\ UNCHANGED <<children, key>>
              /\ forwarded' = None
         ELSE /\ WithinBounds(Child(children, cur.ret), key)
              /\ children' = [children EXCEPT ![cur.ret + 1] = key_pressed(@, key)]
              /\ forwarded' = cur.ret
              /\ key' = ReadKey(children', focused_child, k)
              /\ UNCHANGED <<err, pc>>
    /\ op' = "process"
    /\ ret' = None
    /\ UNCHANGED <<focused_child, focusable_count>>

\* one iteration with no key (the first one, or after a read that raised)
LoopIdle(k) ==
    /\ pc = "Running"
    /\ key = NoKey
    /\ key' = ReadKey(children, focused_child, k)
    /\ op' = "process"
    /\ ret' = None
    /\ forwarded' = None
    /\ UNCHANGED <<children, focused_child, focusable_count, pc, err>>

\* the loop condition fails on Escape and process() returns
LoopExit ==
    /\ pc = "Running"
    /\ key = KEY_ESC
    /\ pc' = "Terminated"
    /\ op' = "process"
    /\ ret' = None
    /\ forwarded' = None
    /\ UNCHANGED <<children, focused_child, focusable_count, key, err>>

\* ---- specifications --------------------------------------------------------------
\* the values and capacities Input(...) is constructed with
RECURSIVE SeqsUpTo(_, _)
SeqsUpTo(S, n) ==
    IF n = 0 THEN {<< >>}
    ELSE LET shorter == SeqsUpTo(S, n - 1) IN
         shorter \cup {Append(s, x) : s \in {t \in shorter : Len(t) = n - 1}, x \in S}

InputValues == SeqsUpTo(Chars, MaxWidthArg)
InputWidths == 0 .. MaxWidthArg

\* the traversal interface driven by a caller: focusable children (Button)
\* and children that are not (Text), then first_child / last_child /
\* next_child / previous_child / current_child
AddAnyChild == \E kind \in {"Button", "Text"} : AddChild(MaxChildren, kind, << >>, 0, "None", FALSE)

NextTraversal ==
    \/ AddAnyChild
    \/ CurrentChild
    \/ FirstChild
    \/ LastChild
    \/ NextChild
    \/ PreviousChild

SpecTraversal == Init /\ [][NextTraversal]_vars

\* the program: a FrameWindow is filled with widgets and process() is run
\* the widgets are built with the defaults of their constructors (Input:
\* value = '', max_width = 0, validate_fn = None; Checkbox: state = False)
AddWindowChild == \E kind \in Kinds : AddChild(MaxWindow, kind, << >>, 0, "None", FALSE)

NextLoop ==
    \/ AddWindowChild
    \/ ProcessStart
    \/ \E k \in Keys \cup {NoKey} : LoopMove(k)
    \/ \E k \in Keys \cup {NoKey} : LoopForward(k)
    \/ \E k \in Keys \cup {NoKey} : LoopIdle(k)
    \/ LoopExit

Spec == Init /\ [][NextLoop]_vars

\* one widget and the keys pressed on it
AddOneWidget ==
    \E kind \in Kinds, value \in InputValues, max_width \in InputWidths,
       validate_fn \in Validators, state \in BOOLEAN :
        AddChild(1, kind, value, max_width, validate_fn, state)

NextWidget ==
    \/ AddOneWidget
    \/ \E k \in Keys : KeyPressed(0, k)

SpecWidget == Init /\ [][NextWidget]_vars

\* ---- properties: focus-chain traversal ----------------------------------------------
\* the indices of the focusable children
Focusable(ch) == {i \in 0 .. Len(ch) - 1 : Child(ch, i).can_focus}

\* the cursor is on a focusable child
OnFocusable(ch, fc) == fc \in Focusable(ch)

SetMin(S) == CHOOSE x \in S : \A y \in S : x <= y
SetMax(S) == CHOOSE x \in S : \A y \in S : x >= y

\* the focusable child after / before index i in cyclic index order
CyclicNext(ch, i) ==
    LET later == {j \in Focusable(ch) : j > i} IN
    IF later # {} THEN SetMin(later) ELSE SetMin(Focusable(ch))

CyclicPrev(ch, i) ==
    LET earlier == {j \in Focusable(ch) : j < i} IN
    IF earlier # {} THEN SetMax(earlier) ELSE SetMax(Focusable(ch))

TraversalOps == {"first_child", "last_child", "next_child", "previous_child"}

\* C1: from a cursor on a focusable child, next_child() returns the next
\* focusable child in cyclic index order, moves the cursor onto it, and
\* raises nothing.
C1_NextChildCyclic ==
    [][(op' = "next_child" /\ OnFocusable(children, focused_child))
         => /\ err' = "none"
            /\ ret' = CyclicNext(children, focused_child)
            /\ focused_child' = ret']_vars

\* C2: from a cursor on a focusable child, previous_child() returns the
\* previous focusable child in cyclic index order (wrapping to the last
\* focusable child), moves the cursor onto it, and raises nothing.
C2_PreviousChildCyclic ==
    [][(op' = "previous_child" /\ OnFocusable(children, focused_child))
         => /\ err' = "none"
            /\ ret' = CyclicPrev(children, focused_child)
            /\ focused_child' = ret']_vars

\* C3: with exactly one focusable child and the cursor on it, next_child()
\* and previous_child() both return that child and leave the cursor on it.
C3_SingleFocusableSelfWrap ==
    [][(/\ op' \in {"next_child", "previous_child"}
        /\ Cardinality(Focusable(children)) = 1
        /\ OnFocusable(children, focused_child))
         => /\ err' = "none"
            /\ ret' = focused_child
            /\ focused_child' = focused_child]_vars

\* C4: with no focusable direct child, every first_child / last_child /
\* next_child / previous_child call returns none, raises nothing and leaves
\* focused_child unset or an index in 0..len(children)-1.
C4_NoFocusableReturnsNone ==
    (op \in TraversalOps /\ Focusable(children) = {})
      => /\ ret = None
         /\ err = "none"
         /\ focused_child = None \/ focused_child \in 0 .. Len(children) - 1

\* C5: once a traversal call has set the cursor on a component with a
\* focusable child, the cursor is the index of a focusable child after
\* every traversal call.
C5_CursorOnFocusable ==
    (op \in TraversalOps /\ focused_child # None /\ Focusable(children) # {})
      => OnFocusable(children, focused_child)

\* ---- properties: the dispatch loop ------------------------------------------------------
\* the indices of the children that hold the focus
Focused(ch) == {i \in 0 .. Len(ch) - 1 : Child(ch, i).has_focus}

\* C6: while the dispatch loop runs, exactly one child has has_focus = true,
\* also after a Tab or Back-Tab for which next_child() / previous_child()
\* returned none.
C6_ExactlyOneFocused ==
    pc = "Running" => Cardinality(Focused(children)) = 1

\* C7: the dispatch loop leaves the Running state only on Escape, and then
\* to Terminated: no other key makes it exit or abort with an error.
C7_OnlyEscapeTerminates ==
    [][(pc = "Running" /\ pc' # "Running")
         => (key = KEY_ESC /\ pc' = "Terminated" /\ err' = "none")]_vars

\* ---- properties: Input ---------------------------------------------------------------------
\* the widget under test is an Input
IsInput == Len(children) = 1 /\ Child(children, 0).kind = "Input"

TheInput == Child(children, 0)

\* C8: key_pressed never takes an Input from len(value) <= max_width to
\* len(value) > max_width, in insert or in overwrite mode.
C8_ValueWithinMaxWidth ==
    [][(op' = "key_pressed" /\ IsInput /\ Len(TheInput.value) <= TheInput.max_width)
         => Len(TheInput'.value) <= TheInput'.max_width]_vars

\* C9: in insert mode with len(value) = max_width, a printable key leaves
\* value unchanged at every cursor position.
C9_InsertAtCapacityIgnored ==
    IsInput =>
      \A k \in Chars :
        (TheInput.insert_mode /\ Len(TheInput.value) = TheInput.max_width)
          => key_pressed(TheInput, k).value = TheInput.value

\* (value, cursor_offset) after a printable key k and then Backspace
TypeThenBackspace(c, k) ==
    LET after == key_pressed(key_pressed(c, k), "KEY_BACKSPACE") IN
    <<after.value, after.cursor_offset>>

\* C10 as stated: in any state of an Input, a printable key and then
\* Backspace restore (value, cursor_offset).
C10_TypeBackspaceAnyState ==
    IsInput =>
      \A k \in Chars :
        TypeThenBackspace(TheInput, k) = <<TheInput.value, TheInput.cursor_offset>>

\* the printable key extends the value: there is room, and the Input is in
\* insert mode or the cursor is at the end
Extends(c) ==
    /\ Len(c.value) < c.max_width
    /\ c.insert_mode \/ c.cursor_offset = Len(c.value)

\* C10 as amended: when the printable key extends the value (room left, and
\* insert mode or cursor at the end) and the validator, if any, accepts the
\* value before and after the key, the key and then Backspace restore
\* (value, cursor_offset).
C10_TypeBackspaceRestores ==
    IsInput =>
      \A k \in Chars :
        (Extends(TheInput) /\ Validx(TheInput) /\ Validx(key_pressed(TheInput, k)))
          => TypeThenBackspace(TheInput, k) = <<TheInput.value, TheInput.cursor_offset>>

\* an Input reached by key presses, not empty, with the cursor inside the
\* value, where a printable key extends the value
C10_Witness ==
    /\ IsInput
    /\ op = "key_pressed"
    /\ Extends(TheInput) /\ Validx(TheInput)
    /\ TheInput.cursor_offset > 0 /\ TheInput.cursor_offset < Len(TheInput.value)
    /\ \E k \in Chars : /\ Validx(key_pressed(TheInput, k))
                        /\ key_pressed(TheInput, k).value # TheInput.value

\* C11: when the validator of an Input returns false for its value,
\* key_pressed with any key leaves value, cursor_offset and insert_mode
\* unchanged.
C11_RejectingValidatorFreezes ==
    [][(op' = "key_pressed" /\ IsInput /\ ~Validx(TheInput))
         => /\ TheInput'.value = TheInput.value
            /\ TheInput'.cursor_offset = TheInput.cursor_offset
            /\ TheInput'.insert_mode = TheInput.insert_mode]_vars

\* a navigation key has been pressed on a non-empty Input whose validator
\* rejects every value
C11_Witness ==
    /\ IsInput
    /\ op = "key_pressed"
    /\ key \in {"KEY_LEFT", "KEY_HOME"}
    /\ TheInput.validate_fn = "reject"
    /\ ~Validx(TheInput)
    /\ TheInput.cursor_offset = Len(TheInput.value)
    /\ Len(TheInput.value) > 0

\* ---- properties: Checkbox -------------------------------------------------------------------
\* the widget under test is a Checkbox
IsCheckbox == Len(children) = 1 /\ Child(children, 0).kind = "Checkbox"

TheCheckbox == Child(children, 0)

\* the keys that activate a Button or a Checkbox: Enter and Space
Activation == {linesep, " "}

\* C12: every activation key pressed on a Checkbox flips state and invokes
\* the callback once, and a second activation key restores state with the
\* callback invoked twice in all (so n presses invoke it n times and leave
\* state flipped iff n is odd).
C12_CheckboxRoundTrip ==
    [][(op' = "key_pressed" /\ IsCheckbox /\ key' \in Activation)
         => /\ TheCheckbox'.state = ~TheCheckbox.state
            /\ TheCheckbox'.calls = TheCheckbox.calls + 1
            /\ \A k \in Activation :
                 LET again == key_pressed(TheCheckbox', k) IN
                 /\ again.state = TheCheckbox.state
                 /\ again.calls = TheCheckbox.calls + 2]_vars

\* a Checkbox constructed checked is checked again after two activation keys
C12_Witness ==
    /\ IsCheckbox
    /\ op = "key_pressed"
    /\ key \in Activation
    /\ TheCheckbox.calls = 2
    /\ TheCheckbox.state

\* ---- properties: first_child, last_child, current_child -----------------------------------
\* C13: on a non-empty child list last_child() puts the cursor on the
\* greatest focusable index (index 0 included) and returns that child, and
\* first_child() does the same for the smallest; each returns none only
\* when no child is focusable.
C13_FirstLastMirror ==
    [][(op' \in {"first_child", "last_child"} /\ Len(children) > 0)
         => /\ err' = "none"
            /\ IF Focusable(children) = {}
               THEN ret' = None
               ELSE /\ ret' = IF op' = "first_child" THEN SetMin(Focusable(children))
                                ELSE SetMax(Focusable(children))
                    /\ focused_child' = ret']_vars

\* C14: current_child() returns none and raises nothing when no traversal
\* call has set the cursor or there are no children.
C14_CurrentChildBeforeTraversal ==
    (op = "current_child" /\ (focused_child = None \/ Len(children) = 0))
      => (err = "none" /\ ret = None)

\* ---- properties: Input, overwrite mode and cursor ------------------------------------------
\* C15: a printable key k pressed on an Input in overwrite mode (the key
\* passing the validator, if any): with the cursor at the end and
\* len(value) < max_width the result is value + k and the cursor advances
\* by one; with the cursor inside the value the character under it is
\* replaced by k, and len(value) and cursor_offset are unchanged.
C15_OverwriteMode ==
    [][(/\ op' = "key_pressed" /\ IsInput /\ key' \in Chars
        /\ ~TheInput.insert_mode /\ Validx(TheInput))
         => /\ (/\ TheInput.cursor_offset = Len(TheInput.value)
                /\ Len(TheInput.value) < TheInput.max_width)
                  => /\ TheInput'.value = Append(TheInput.value, key')
                     /\ TheInput'.cursor_offset = TheInput.cursor_offset + 1
            /\ TheInput.cursor_offset < Len(TheInput.value)
                  => /\ TheInput'.value =
                          [TheInput.value EXCEPT ![TheInput.cursor_offset + 1] = key']
                     /\ Len(TheInput'.value) = Len(TheInput.value)
                     /\ TheInput'.cursor_offset = TheInput.cursor_offset]_vars

\* an Input in overwrite mode after a printable key replaced the character
\* under a cursor that has characters on both sides
C15_Witness ==
    /\ IsInput
    /\ op = "key_pressed"
    /\ key \in Chars
    /\ ~TheInput.insert_mode
    /\ TheInput.cursor_offset > 0
    /\ TheInput.cursor_offset + 1 < Len(TheInput.value)
    /\ TheInput.value[TheInput.cursor_offset + 1] = key
    /\ TheInput.value[TheInput.cursor_offset] # key

\* C16: after any sequence of key_pressed calls on an Input constructed
\* with any value, 0 <= cursor_offset <= len(value).
C16_CursorWithinValue ==
    IsInput => /\ 0 <= TheInput.cursor_offset
               /\ TheInput.cursor_offset <= Len(TheInput.value)

\* Backspace has just deleted the last character of an Input, the cursor
\* following the end of the value
C16_Witness ==
    /\ IsInput
    /\ op = "key_pressed"
    /\ key = "KEY_BACKSPACE"
    /\ Len(TheInput.value) > 0
    /\ TheInput.cursor_offset = Len(TheInput.value)

\* ---- properties: the dispatch loop, Escape and forwarding -------------------------------
\* C17: when the key read in the Running state is Escape, the only step of
\* the loop is the exit to Terminated: no key_pressed is called, and the
\* children (their focus and widget state) and the cursor are unchanged.
C17_EscapeExits ==
    [][(pc = "Running" /\ key = KEY_ESC)
         => /\ pc' = "Terminated"
            /\ forwarded' = None
            /\ children' = children
            /\ focused_child' = focused_child]_vars

\* the loop has exited on Escape with the focus on the second child, to
\* which it had been moved
C17_Witness ==
    /\ pc = "Terminated"
    /\ key = KEY_ESC
    /\ focused_child = 1
    /\ Focused(children) = {1}

\* C18: in the dispatch loop a key is forwarded only to the focused child,
\* a child with can_focus = true and has_focus = true; a child that is not
\* focusable (Text) never receives a key.
C18_ForwardedToFocusedChild ==
    (pc = "Running" /\ forwarded # None)
      => /\ Child(children, forwarded).can_focus
         /\ Child(children, forwarded).has_focus

\* C20: during the dispatch loop at most one direct child has has_focus =
\* true, every child with has_focus = true has can_focus = true, and a child
\* with has_focus = true is the child at focused_child.
C20_FocusIsAtCursor ==
    pc = "Running"
      => /\ Cardinality(Focused(children)) <= 1
         /\ \A i \in Focused(children) :
              Child(children, i).can_focus /\ i = focused_child

\* the focus has moved from the first child, which is focusable, to the
\* second
C20_Witness ==
    /\ pc = "Running"
    /\ Len(children) = 2
    /\ Child(children, 0).can_focus
    /\ focused_child = 1
    /\ Focused(children) = {1}

\* ---- properties: Checkbox, order of events -----------------------------------------------
\* C19: on an activation key the Checkbox flips state, then repaints, then
\* invokes the callback: the callback finds the new state in the widget and
\* the mark of the new state already on the surface.
C19_CallbackSeesCommittedState ==
    [][(op' = "key_pressed" /\ IsCheckbox /\ key' \in Activation)
         => /\ TheCheckbox'.state = ~TheCheckbox.state
            /\ TheCheckbox'.painted = Mark(TheCheckbox'.state)
            /\ TheCheckbox'.seen = <<TheCheckbox'.state, Mark(TheCheckbox'.state)>>]_vars

\* the callback of a Checkbox constructed unchecked has run once and found
\* it checked and painted checked
C19_Witness ==
    /\ IsCheckbox
    /\ op = "key_pressed"
    /\ key \in Activation
    /\ TheCheckbox.calls = 1
    /\ TheCheckbox.state
    /\ TheCheckbox.seen = <<TRUE, "checked">>

====
